---- MODULE Spec2Model ----
(***************************************************************************)
(* Model of mini_hawkular/metrics.py: the HawkularMetricsClient, its       *)
(* request construction (_http), its error classification (_handle_error), *)
(* the batch partitioning of put, and the record builders create_metric    *)
(* and create_datapoint.                                                   *)
(*                                                                         *)
(* Python values are represented as follows.                               *)
(*   None (for a type, a token)      the string "None"                     *)
(*   None (for username, password)   <<>> ; a byte string b is <<b>>       *)
(*   a byte string                   a sequence of byte values 0..255      *)
(*   a metric id                     a sequence of one-character strings   *)
(*   a dict record                   a record; its 'type' key absent (or   *)
(*                                   None) is type = "None": d.pop('type', *)
(*                                   None) cannot tell the two apart       *)
(*   a URL                           the sequence of its path components   *)
(*                                                                         *)
(* put is several steps: its first loop (PutBegin) and each turn of its    *)
(* second loop (PostGroup), between which another thread may call tenant. *)
(* Spec is the client used for batches from several threads; SpecHttp is   *)
(* the single requests of push and update_metric_tags under every          *)
(* credential setting and every outcome of urlopen.                        *)
(***************************************************************************)
EXTENDS Integers, Sequences, FiniteSets, TLC

VARIABLES
    self,        \* the HawkularMetricsClient instance (its attributes)
    heap,        \* the metric records (dicts) the caller holds, by reference
    pc,          \* position of the calling thread: idle / posting / returned / raised
    op,          \* the public operation in flight: none / put / push / tags
    batch,       \* the argument of the put in flight, as a list of references
    held,        \* the records the references of batch named when put was called
    groups,      \* put's local r: type -> list of records
    posted,      \* the keys of r whose POST has been done by put's second loop
    requests,    \* the requests handed to urlopen by the operation in flight
    lastResp,    \* what urlopen did with the last request
    exc,         \* the exception caught at _http's except clause ("None" record if none)
    err,         \* the exception the operation raised to its caller
    lastOp,      \* name of the last public call that took a step
    tenantArg,   \* argument of the last tenant() call, or the constructor's tenant_id
    callTenant,  \* self.tenant_id when the operation in flight was called
    switched     \* a tenant() call happened while the operation was in flight

vars == <<self, heap, pc, op, batch, held, groups, posted, requests, lastResp, exc,
          err, lastOp, tenantArg, callTenant, switched>>

----------------------------------------------------------------------------
(* Bounds of the model *)

MaxObjs == 2       \* metric records the caller builds
MaxBatch == 2      \* length of the list passed to put

----------------------------------------------------------------------------
(* class MetricType *)

None == "None"
Gauge == "gauges"
Availability == "availability"
Counter == "counters"
String == "strings"
Rate == "rate"
_Metrics == "metrics"

MetricTypes == {Gauge, Availability, Counter, String, Rate, _Metrics}

\* the types the caller passes in the model (None: no type)
TypeInputs == {Gauge, Counter, _Metrics, None}

short(metric_type) ==
    IF metric_type = Gauge THEN "gauge"
    ELSE IF metric_type = Counter THEN "counter"
    ELSE IF metric_type = String THEN "string"
    ELSE "availability"

----------------------------------------------------------------------------
(* Inputs *)

Tenants == {"t1", "t2"}
Tokens == {None, "tok"}
Usernames == {<<>>, << <<117>> >>}            \* None, b"u"
Passwords == {<<>>, << <<112, 119>> >>}       \* None, b"pw"
MetricIds == {<<"a">>, <<"c", "/", "d">>}
\* the id the caller gives to the k-th record it builds
RecordIds == <<<<"a">>, <<"c", "/", "d">>, <<"b">>, <<"d">>>>
\* (token, username, password) of the clients constructed
Credentials == Tokens \X Usernames \X Passwords
Unreserved == {"a", "b", "c", "d", "_", ".", "-"}

\* constructor defaults
DefaultHost == "localhost"
DefaultPort == 8080
DefaultPath == "hawkular/metrics"
DefaultScheme == "http"

HawkularMetricsClient(tenant_id, token, username, password) ==
    [tenant_id |-> tenant_id, host |-> DefaultHost, port |-> DefaultPort,
     path |-> DefaultPath, scheme |-> DefaultScheme, cafile |-> None,
     context |-> None, token |-> token, username |-> username,
     password |-> password]

----------------------------------------------------------------------------
(* URL builders *)

\* urllib.quote(s, ''): every character outside the unreserved set is
\* replaced by its %XX escape; the result is one string.  Of the characters
\* of MetricIds only "/" is escaped.
Hex(c) == IF c = "/" THEN "%2F" ELSE "%3F"

RECURSIVE quote(_)
quote(s) ==
    IF s = <<>> THEN ""
    ELSE (IF Head(s) \in Unreserved THEN Head(s) ELSE Hex(Head(s)))
         \o quote(Tail(s))

_clean_metric_id(metric_id) == quote(metric_id)

_get_base_url(c) == <<c.scheme, c.host, c.port, c.path>>

_get_url(c, metric_type) ==
    _get_base_url(c) \o <<IF metric_type = None THEN _Metrics ELSE metric_type>>

_get_metrics_single_url(c, metric_type, metric_id) ==
    _get_url(c, metric_type) \o <<_clean_metric_id(metric_id)>>

_get_metrics_raw_url(metrics_url) == metrics_url \o <<"raw">>

_get_metrics_tags_url(metrics_url) == metrics_url \o <<"tags">>

----------------------------------------------------------------------------
(* base64.b64encode, and its inverse (used to read a header back) *)

Pad == 64      \* the index standing for '='
Colon == 58    \* b':'

RECURSIVE b64encode(_)
b64encode(bs) ==
    IF Len(bs) = 0 THEN <<>>
    ELSE IF Len(bs) = 1 THEN
        LET n == bs[1] * 65536
        IN  <<n \div 262144, (n \div 4096) % 64, Pad, Pad>>
    ELSE IF Len(bs) = 2 THEN
        LET n == bs[1] * 65536 + bs[2] * 256
        IN  <<n \div 262144, (n \div 4096) % 64, (n \div 64) % 64, Pad>>
    ELSE
        LET n == bs[1] * 65536 + bs[2] * 256 + bs[3]
        IN  <<n \div 262144, (n \div 4096) % 64, (n \div 64) % 64, n % 64>>
            \o b64encode(SubSeq(bs, 4, Len(bs)))

RECURSIVE b64decode(_)
b64decode(cs) ==
    IF Len(cs) < 4 THEN <<>>
    ELSE
        LET v(i) == IF cs[i] = Pad THEN 0 ELSE cs[i]
            n == v(1) * 262144 + v(2) * 4096 + v(3) * 64 + v(4)
            all == <<n \div 65536, (n \div 256) % 256, n % 256>>
            k == IF cs[3] = Pad THEN 1 ELSE IF cs[4] = Pad THEN 2 ELSE 3
        IN  SubSeq(all, 1, k) \o b64decode(SubSeq(cs, 5, Len(cs)))

----------------------------------------------------------------------------
(* Exceptions *)

\* an exception object; the fields a class does not have are left empty
Exception(cls, code, msg, reason, body) ==
    [cls |-> cls, code |-> code, msg |-> msg, reason |-> reason, body |-> body]

NoExc == Exception(None, 0, "", "", "")

\* the direct base class of each exception class
Base(cls) ==
    CASE cls = "HawkularMetricsError" -> "HTTPError"
      [] cls = "HawkularMetricsConnectionError" -> "URLError"
      [] cls = "HTTPError" -> "URLError"
      [] OTHER -> "Exception"

RECURSIVE isinstance(_, _)
isinstance(e, cls) ==
    \/ e.cls = cls
    \/ e.cls # "Exception" /\ isinstance([e EXCEPT !.cls = Base(e.cls)], cls)

\* HTTPError.__init__(self, url, code, msg, hdrs, fp), which
\* HawkularMetricsError inherits: the number of arguments it takes
HTTPErrorInitArgs == 5

\* HawkularMetricsError(*args): the call fails with a TypeError unless it is
\* given the arguments the inherited constructor takes
HawkularMetricsError(args) ==
    IF Len(args) = HTTPErrorInitArgs
    THEN Exception("HawkularMetricsError", args[2], args[3], "", "")
    ELSE Exception("TypeError", 0, "__init__() takes exactly 6 arguments", "", "")

----------------------------------------------------------------------------
(* json *)

ErrorMsgBody == "{\"errorMsg\": \"tenant not found\"}"
OtherJsonBody == "{\"status\": 500}"
ListJsonBody == "[\"errorMsg\"]"
TextBody == "Internal Server Error"
Bodies == {ErrorMsgBody, OtherJsonBody, ListJsonBody, TextBody, ""}

\* json.loads on the bodies of the model: the value, or a ValueError
json_loads(text) ==
    CASE text = ErrorMsgBody -> [ok |-> TRUE, kind |-> "dict", keys |-> {"errorMsg"},
                                 errorMsg |-> "tenant not found"]
      [] text = OtherJsonBody -> [ok |-> TRUE, kind |-> "dict", keys |-> {"status"},
                                  errorMsg |-> ""]
      [] text = ListJsonBody -> [ok |-> TRUE, kind |-> "list", keys |-> {},
                                 errorMsg |-> ""]
      [] OTHER -> [ok |-> FALSE, kind |-> "", keys |-> {}, errorMsg |-> ""]

\* json.dumps(data, indent=2): the serialized text of a value
json_dumps(data) == [json |-> data]

----------------------------------------------------------------------------
(* What urlopen can do with a request: the inputs of the network *)

Response(code, body) ==
    [kind |-> "response", code |-> code, body |-> body, reason |-> "", cls |-> ""]
Failure(kind, cls, reason) ==
    [kind |-> kind, code |-> 0, body |-> "", reason |-> reason, cls |-> cls]
NoResp == Failure(None, "", "")

SuccessClass == {200, 201, 202, 204}     \* statuses of the model within 2xx
ErrorClass == {404, 500}                 \* statuses of the model outside 2xx
Statuses == SuccessClass \cup ErrorClass

Outcomes ==
    {Response(c, "") : c \in SuccessClass}
    \cup {Response(c, b) : c \in ErrorClass, b \in Bodies}
    \cup {Failure("URLError", "URLError", "Connection refused")}
    \cup {Failure("raise", "ValueError", "")}

\* urllib2.HTTPErrorProcessor.http_response, the base class's method: a 2xx
\* response is returned, any other goes to the opener's error handlers,
\* whose default raises HTTPError(code, msg, fp)
HTTPErrorProcessor_http_response(response) ==
    IF 200 <= response.code /\ response.code < 300
    THEN NoExc
    ELSE Exception("HTTPError", response.code, "", "", response.body)

\* a variant of http_response that hands every status but 200, 201 and 204 to
\* the error handlers, without asking the base class
http_response_listed_only(response) ==
    IF response.code \in {200, 201, 204}
    THEN NoExc
    ELSE Exception("HTTPError", response.code, "", "", response.body)

\* HawkularHTTPErrorProcessor.http_response: NoExc when the response is
\* returned, else the exception raised
http_response(response) ==
    IF response.code \in {200, 201, 204}
    THEN NoExc
    ELSE HTTPErrorProcessor_http_response(response)

\* urlopen(req): NoExc when it returns a response, else the exception raised
urlopen(outcome) ==
    CASE outcome.kind = "response" -> http_response(outcome)
      [] outcome.kind = "URLError" -> Exception("URLError", 0, "", outcome.reason, "")
      [] OTHER -> Exception(outcome.cls, 0, "", "", "")

----------------------------------------------------------------------------
(* _handle_error and _http *)

ConnectionPrefix == "Error, could not send event(s) to the Hawkular Metrics: "

\* a variant of _handle_error that tests URLError before HTTPError, its
\* subclass
_handle_error_urlerror_first(e) ==
    IF isinstance(e, "URLError") THEN
        [e EXCEPT !.cls = "HawkularMetricsConnectionError",
                  !.msg = ConnectionPrefix \o e.reason]
    ELSE e

\* _handle_error(e): the exception it raises (it always raises)
_handle_error(e) ==
    IF isinstance(e, "HTTPError") THEN
        LET err_json == e.body
            err_d == json_loads(err_json)
        IN  [e EXCEPT !.cls = "HawkularMetricsError",
                      !.msg = IF err_d.ok /\ err_d.kind = "dict"
                                 /\ "errorMsg" \in err_d.keys
                              THEN err_d.errorMsg
                              ELSE err_json]
    ELSE IF isinstance(e, "URLError") THEN
        [e EXCEPT !.cls = "HawkularMetricsConnectionError",
                  !.msg = ConnectionPrefix \o e.reason]
    ELSE e

\* a variant of Headers that tests the username before the token
Headers_username_first(c) ==
    LET base == ("Content-Type" :> "application/json")
                @@ ("Hawkular-Tenant" :> c.tenant_id)
                @@ ("Host" :> c.host)
    IN  IF c.username # <<>> /\ c.password # <<>> THEN
            base @@ ("Authorization" :>
                       [scheme |-> "Basic", token |-> None,
                        b64 |-> b64encode(c.username[1] \o <<Colon>> \o c.password[1])])
        ELSE IF c.token # None THEN
            base @@ ("Authorization" :>
                       [scheme |-> "Bearer", token |-> c.token, b64 |-> <<>>])
        ELSE base

\* the headers _http adds to the request, in its order; add_header stores
\* them in a dict, one value per name
Headers(c) ==
    LET base == ("Content-Type" :> "application/json")
                @@ ("Hawkular-Tenant" :> c.tenant_id)
                @@ ("Host" :> c.host)
    IN  IF c.token # None THEN
            base @@ ("Authorization" :>
                       [scheme |-> "Bearer", token |-> c.token, b64 |-> <<>>])
        ELSE IF c.username # <<>> THEN
            base @@ ("Authorization" :>
                       [scheme |-> "Basic", token |-> None,
                        b64 |-> b64encode(c.username[1] \o <<Colon>> \o c.password[1])])
        ELSE base

\* self.username + b':' + self.password raises TypeError when password is None
HeadersRaise(c) == c.token = None /\ c.username # <<>> /\ c.password = <<>>

\* _http(url, method, data) when urlopen does `outcome`:
\*   sent    the request handed to urlopen (none if building it raised)
\*   caught  the exception caught by the except clause (NoExc if none)
\*   raised  the exception _http raises to its caller (NoExc if it returns)
_http(c, url, method, data, outcome) ==
    LET req == [method |-> method, url |-> url, headers |-> Headers(c),
                data |-> json_dumps(data)]
        caught == IF HeadersRaise(c)
                  THEN Exception("TypeError", 0, "cannot concatenate", "", "")
                  ELSE urlopen(outcome)
    IN  [sent |-> IF HeadersRaise(c) THEN <<>> ELSE <<req>>,
         caught |-> caught,
         raised |-> IF caught = NoExc THEN NoExc ELSE _handle_error(caught)]

----------------------------------------------------------------------------
(* Static methods *)

Clock == {7}        \* what time_millis() returns

\* create_datapoint(value, timestamp=None, **tags); now is time_millis()
create_datapoint(value, timestamp, tags, now) ==
    [timestamp |-> IF timestamp = <<>> THEN now ELSE timestamp[1],
     value |-> value, tags |-> tags]

\* an argument that is either a list or a single value: data.list tells
\* which, data.v holds the list, or the single value as data.v[1];
\* if not isinstance(data, list): data = [data]
AsList(data) == IF data.list THEN data.v ELSE <<data.v[1]>>

\* create_metric(metric_type, metric_id, data)
create_metric(metric_type, metric_id, data) ==
    [type |-> metric_type, id |-> metric_id, data |-> AsList(data)]

DP == create_datapoint(1, <<5>>, <<>>, 7)
DataInputs == {[list |-> FALSE, v |-> <<DP>>], [list |-> TRUE, v |-> <<DP>>]}

----------------------------------------------------------------------------
(* put *)

\* d.pop('type', None): the record without its type
PopType(d) == [d EXCEPT !.type = None]

\* what r[metric_type].append(d) appends: d itself, its type popped; json
\* renders the keys it still has
Stripped(d) == [id |-> d.id, data |-> d.data]

\* r[metric_type].append(d) on the defaultdict r
GroupAppend(r, metric_type, d) ==
    IF metric_type \in DOMAIN r
    THEN [r EXCEPT ![metric_type] = Append(@, Stripped(d))]
    ELSE r @@ (metric_type :> <<Stripped(d)>>)

\* a variant of put's first loop that also raises for a type outside
\* Gauge, Availability, Counter, String
RECURSIVE PutLoop_members_only(_, _, _, _)
PutLoop_members_only(h, data, i, r) ==
    IF i > Len(data) THEN [h |-> h, r |-> r, raised |-> FALSE]
    ELSE
        LET d == data[i]
            metric_type == h[d].type
            h2 == [h EXCEPT ![d] = PopType(h[d])]
        IN  IF metric_type \notin {Gauge, Availability, Counter, String}
            THEN [h |-> h2, r |-> r, raised |-> TRUE]
            ELSE PutLoop_members_only(h2, data, i + 1,
                                      GroupAppend(r, metric_type, h[d]))

\* put's first loop from record i of data on, the records read and changed
\* through their references into h:
\*   h       the records after the loop
\*   r       the groups built
\*   raised  whether the loop ended at `raise HawkularMetricsError(...)`
RECURSIVE PutLoop(_, _, _, _)
PutLoop(h, data, i, r) ==
    IF i > Len(data) THEN [h |-> h, r |-> r, raised |-> FALSE]
    ELSE
        LET d == data[i]
            metric_type == h[d].type
            h2 == [h EXCEPT ![d] = PopType(h[d])]
        IN  IF metric_type = None
            THEN [h |-> h2, r |-> r, raised |-> TRUE]
            ELSE PutLoop(h2, data, i + 1, GroupAppend(r, metric_type, h[d]))

\* the arguments put is called with: one record, or a list of records
PutInputs ==
    {[list |-> FALSE, v |-> <<o>>] : o \in 1..Len(heap)}
    \cup {[list |-> TRUE, v |-> <<>>]}
    \cup UNION {[list : {TRUE}, v : [1..n -> 1..Len(heap)]] : n \in 1..MaxBatch}

----------------------------------------------------------------------------
(* Initial state: a client just constructed, no record built *)

InitWith(creds) ==
    /\ self \in {HawkularMetricsClient("t1", c[1], c[2], c[3]) : c \in creds}
    /\ heap = <<>>
    /\ pc = "idle"
    /\ op = "none"
    /\ batch = <<>>
    /\ held = <<>>
    /\ groups = <<>>
    /\ posted = {}
    /\ requests = <<>>
    /\ lastResp = NoResp
    /\ exc = NoExc
    /\ err = NoExc
    /\ lastOp = "other"
    /\ tenantArg = "t1"
    /\ callTenant = "t1"
    /\ switched = FALSE

----------------------------------------------------------------------------
(* Actions *)

\* the caller builds a record with create_metric
CreateMetric(metric_type, metric_id, data) ==
    /\ pc = "idle"
    /\ Len(heap) < MaxObjs
    /\ metric_id = RecordIds[Len(heap) + 1]
    /\ heap' = Append(heap, create_metric(metric_type, metric_id, data))
    /\ lastOp' = "other"
    /\ UNCHANGED <<self, pc, op, batch, held, groups, posted, requests, lastResp,
                   exc, err, tenantArg, callTenant, switched>>

\* a variant of tenant that does not store its argument
tenant_not_stored(c, tenant_id) == c

\* tenant(tenant_id), from any thread, at any moment
tenant(c, tenant_id) == [c EXCEPT !.tenant_id = tenant_id]

Tenant(tenant_id) ==
    /\ self' = tenant(self, tenant_id)
    /\ tenantArg' = tenant_id
    /\ switched' = (switched \/ pc = "posting")
    /\ lastOp' = "tenant"
    /\ UNCHANGED <<heap, pc, op, batch, held, groups, posted, requests, lastResp,
                   exc, err, callTenant>>

\* put(data) up to its second loop: the list, the partition by type
PutBegin(name, h, data) ==
    LET res == PutLoop(h, data, 1, <<>>)
    IN  /\ op' = name
        /\ batch' = data
        /\ held' = [i \in 1..Len(data) |-> h[data[i]]]
        /\ groups' = res.r
        /\ posted' = {}
        /\ requests' = <<>>
        /\ lastResp' = NoResp
        /\ exc' = NoExc
        /\ err' = IF res.raised
                  THEN HawkularMetricsError(<<"Undefined MetricType">>)
                  ELSE NoExc
        /\ pc' = IF res.raised THEN "raised"
                 ELSE IF DOMAIN res.r = {} THEN "returned" ELSE "posting"
        /\ callTenant' = self.tenant_id
        /\ switched' = FALSE
        /\ lastOp' = "other"
        /\ UNCHANGED <<self, tenantArg>>

Put(data) ==
    /\ pc = "idle"
    /\ PutBegin("put", heap, AsList(data))
    /\ heap' = PutLoop(heap, AsList(data), 1, <<>>).h

\* push(metric_type, metric_id, value, timestamp): the record is push's own
Push(metric_type, metric_id, value, timestamp, now) ==
    LET item == create_metric(metric_type, metric_id,
                    [list |-> FALSE,
                     v |-> <<create_datapoint(value, timestamp, <<>>, now)>>])
    IN  /\ pc = "idle"
        /\ PutBegin("push", <<item>>, AsList([list |-> FALSE, v |-> <<1>>]))
        /\ UNCHANGED heap

\* a variant of put's second loop that goes on after a failed _post, the
\* group left to be posted again
PostGroup_goes_on(l, outcome) ==
    LET res == _http(self, _get_metrics_raw_url(_get_url(self, l)), "POST",
                     groups[l], outcome)
    IN  /\ pc = "posting"
        /\ l \in DOMAIN groups \ posted
        /\ requests' = requests \o res.sent
        /\ lastResp' = IF res.sent = <<>> THEN lastResp ELSE outcome
        /\ exc' = NoExc
        /\ err' = NoExc
        /\ posted' = IF res.raised = NoExc THEN posted \cup {l} ELSE posted
        /\ pc' = IF posted' = DOMAIN groups THEN "returned" ELSE "posting"
        /\ lastOp' = "other"
        /\ UNCHANGED <<self, heap, op, batch, held, groups, tenantArg, callTenant,
                       switched>>

\* a variant of put's second loop that sends the tenant the client had when
\* put was called
PostGroup_tenant_of_call(l, outcome) ==
    LET res == _http([self EXCEPT !.tenant_id = callTenant],
                     _get_metrics_raw_url(_get_url(self, l)), "POST",
                     groups[l], outcome)
    IN  /\ pc = "posting"
        /\ l \in DOMAIN groups \ posted
        /\ requests' = requests \o res.sent
        /\ lastResp' = IF res.sent = <<>> THEN lastResp ELSE outcome
        /\ exc' = res.caught
        /\ err' = res.raised
        /\ posted' = IF res.raised = NoExc THEN posted \cup {l} ELSE posted
        /\ pc' = IF res.raised # NoExc THEN "raised"
                 ELSE IF posted' = DOMAIN groups THEN "returned" ELSE "posting"
        /\ lastOp' = "other"
        /\ UNCHANGED <<self, heap, op, batch, held, groups, tenantArg, callTenant,
                       switched>>

\* one turn of put's second loop: for l in r: self._post(raw url of l, r[l]);
\* the dict gives its keys in an order the code does not choose
PostGroup(l, outcome) ==
    LET res == _http(self, _get_metrics_raw_url(_get_url(self, l)), "POST",
                     groups[l], outcome)
    IN  /\ pc = "posting"
        /\ l \in DOMAIN groups \ posted
        /\ requests' = requests \o res.sent
        /\ lastResp' = IF res.sent = <<>> THEN lastResp ELSE outcome
        /\ exc' = res.caught
        /\ err' = res.raised
        /\ posted' = IF res.raised = NoExc THEN posted \cup {l} ELSE posted
        /\ pc' = IF res.raised # NoExc THEN "raised"
                 ELSE IF posted' = DOMAIN groups THEN "returned" ELSE "posting"
        /\ lastOp' = "other"
        /\ UNCHANGED <<self, heap, op, batch, held, groups, tenantArg, callTenant,
                       switched>>

\* update_metric_tags(metric_type, metric_id, **tags)
UpdateMetricTags(metric_type, metric_id, tags, outcome) ==
    LET url == _get_metrics_tags_url(
                   _get_metrics_single_url(self, metric_type, metric_id))
        res == _http(self, url, "PUT", tags, outcome)
    IN  /\ pc = "idle"
        /\ op' = "tags"
        /\ batch' = <<>>
        /\ held' = <<>>
        /\ groups' = <<>>
        /\ posted' = {}
        /\ requests' = res.sent
        /\ lastResp' = IF res.sent = <<>> THEN NoResp ELSE outcome
        /\ exc' = res.caught
        /\ err' = res.raised
        /\ pc' = IF res.raised # NoExc THEN "raised" ELSE "returned"
        /\ callTenant' = self.tenant_id
        /\ switched' = FALSE
        /\ lastOp' = "other"
        /\ UNCHANGED <<self, heap, tenantArg>>

\* the caller goes on after the call returned or raised
Continue ==
    /\ pc \in {"returned", "raised"}
    /\ pc' = "idle"
    /\ op' = "none"
    /\ batch' = <<>>
    /\ held' = <<>>
    /\ groups' = <<>>
    /\ posted' = {}
    /\ requests' = <<>>
    /\ lastResp' = NoResp
    /\ exc' = NoExc
    /\ err' = NoExc
    /\ switched' = FALSE
    /\ callTenant' = self.tenant_id
    /\ lastOp' = "other"
    /\ UNCHANGED <<self, heap, tenantArg>>

TagInputs == {<<>>, ("env" :> "prod")}

\* the client used for batches, from several threads: the outcomes of a request
\* are a success, a server error and a connection failure
BatchCredentials == {<<None, <<>>, <<>>>>, <<"tok", <<<<117>>>>, <<<<112, 119>>>>>>}
BatchOutcomes ==
    {Response(200, ""), Response(500, ErrorMsgBody),
     Failure("URLError", "URLError", "Connection refused"),
     Failure("raise", "ValueError", "")}

Init == InitWith(BatchCredentials)

Next ==
    \/ \E t \in TypeInputs, k \in DOMAIN RecordIds, d \in DataInputs :
           CreateMetric(t, RecordIds[k], d)
    \/ \E t \in Tenants : Tenant(t)
    \/ \E data \in PutInputs : Put(data)
    \/ \E t \in TypeInputs : Push(t, <<"a">>, 1, <<>>, 7)
    \/ \E l \in MetricTypes, o \in BatchOutcomes : PostGroup(l, o)
    \/ \E i \in MetricIds, o \in BatchOutcomes :
           UpdateMetricTags(Gauge, i, ("env" :> "prod"), o)
    \/ Continue

Spec == Init /\ [][Next]_vars

\* single requests, with every credential setting and every outcome
InitHttp == InitWith(Credentials)

NextHttp ==
    \/ \E t \in Tenants : Tenant(t)
    \/ \E t \in TypeInputs, i \in MetricIds, ts \in {<<>>, <<5>>}, now \in Clock :
           Push(t, i, 1, ts, now)
    \/ \E l \in MetricTypes, o \in Outcomes : PostGroup(l, o)
    \/ \E t \in TypeInputs, i \in MetricIds, tg \in TagInputs, o \in Outcomes :
           UpdateMetricTags(t, i, tg, o)
    \/ Continue

SpecHttp == InitHttp /\ [][NextHttp]_vars

----------------------------------------------------------------------------
(* Vocabulary of the properties *)

\* the types a record may be submitted under
Recognized == {Gauge, Availability, Counter, String}

\* a put (not a push) has been called and has not been left yet
InPut == op = "put" /\ pc # "idle"
\* the put has ended, by returning or by raising
PutEnded == op = "put" /\ pc \in {"returned", "raised"}

TenantOf(req) == req.headers["Hawkular-Tenant"]
RawUrl(t) == <<self.scheme, self.host, self.port, self.path, t, "raw">>
TypesOf(recs) == {recs[i].type : i \in DOMAIN recs}
\* the records of type t among recs, in their order, as id and data
Payload(recs, t) ==
    LET sel == SelectSeq(recs, LAMBDA x : x.type = t)
    IN  [i \in 1..Len(sel) |-> [id |-> sel[i].id, data |-> sel[i].data]]
RequestsTo(url) == {k \in DOMAIN requests : requests[k].url = url}
\* a request has been handed to urlopen in this step
Sent == Len(requests') > Len(requests)
Newest == requests'[Len(requests')]

----------------------------------------------------------------------------
(* Properties *)

\* C1: when put has ended on a batch whose records all had a type when put
\* was called, and no _post raised, there is exactly one request per
\* distinct type of the batch, a POST to the raw URL of that type, whose
\* payload is the records of that type (id and data) in batch order.
C1_OnePostPerType ==
    (PutEnded /\ exc = NoExc /\ \A i \in DOMAIN held : held[i].type # None)
    => /\ Len(requests) = Cardinality(TypesOf(held))
       /\ \A t \in TypesOf(held) :
            \E k \in DOMAIN requests :
               /\ requests[k].method = "POST"
               /\ requests[k].url = RawUrl(t)
               /\ requests[k].data = [json |-> Payload(held, t)]

\* the same for the batches that name each record object once: this holds
C1_OnePostPerTypeDistinct ==
    (\A i, j \in DOMAIN batch : batch[i] = batch[j] => i = j)
    => C1_OnePostPerType

\* C2: a put whose batch holds a record with no type ends by raising
\* HawkularMetricsError (the InvalidMetricType error), with no request issued.
C2_UntypedRaisesInvalidMetricType ==
    (InPut /\ \E i \in DOMAIN held : held[i].type = None)
    => /\ pc = "raised"
       /\ err.cls = "HawkularMetricsError"
       /\ requests = <<>>

\* what the code does there: it raises, with no request issued
C2_UntypedRaisesBeforeNetwork ==
    (InPut /\ \E i \in DOMAIN held : held[i].type = None)
    => pc = "raised" /\ requests = <<>>

\* C3: put is one-shot.  Each group is requested at most once and only by
\* POST; the requests made are those of the groups posted plus at most the
\* one that failed; when a _post fails, put has raised the error of that
\* request, the groups not yet reached have no request; and once put has
\* raised, the call sends nothing more.
C3_Inv ==
    op \in {"put", "push"} =>
       /\ \A j, k \in DOMAIN requests :
             j # k => requests[j].url # requests[k].url
       /\ \A k \in DOMAIN requests : requests[k].method = "POST"
       /\ \A l \in posted : Cardinality(RequestsTo(RawUrl(l))) = 1
       /\ exc = NoExc => Len(requests) = Cardinality(posted)
       /\ exc # NoExc =>
             /\ pc = "raised"
             /\ Len(requests) = Cardinality(posted) + 1
             /\ lastResp.kind = "response" =>
                   err.cls = "HawkularMetricsError" /\ err.code = lastResp.code
             /\ lastResp.kind = "URLError" =>
                   err.cls = "HawkularMetricsConnectionError"
             /\ lastResp.kind = "raise" => err.cls = lastResp.cls

C3_Step ==
    /\ pc = "raised" => (pc' = "raised" /\ requests' = requests) \/ pc' = "idle"
    /\ pc = "posting" =>
          \/ requests' = requests
          \/ /\ Len(requests') = Len(requests) + 1
             /\ SubSeq(requests', 1, Len(requests)) = requests

\* C3: put is one-shot: C3_Inv in every state and C3_Step at every step
C3_PutOneShot == [](C3_Inv) /\ [][C3_Step]_vars

\* the first group's POST failed while another group was still to be posted:
\* that group got no request
C3_Witness ==
    /\ op = "put" /\ pc = "raised" /\ exc # NoExc
    /\ posted = {}
    /\ Cardinality(DOMAIN groups) = 2
    /\ Len(requests) = 1

C5_Classified ==
    /\ (lastResp.kind \in {"URLError", "raise"}) => exc # NoExc
    /\ exc # NoExc =>
          /\ pc = "raised"
          /\ err # NoExc
          /\ exc.cls = "HTTPError" =>
                /\ err.cls = "HawkularMetricsError"
                /\ err.code = exc.code
                /\ err.msg = IF exc.body = ErrorMsgBody THEN "tenant not found"
                             ELSE exc.body
          /\ exc.cls = "URLError" =>
                /\ err.cls = "HawkularMetricsConnectionError"
                /\ err.msg =
                     "Error, could not send event(s) to the Hawkular Metrics: Connection refused"
          /\ exc.cls \notin {"HTTPError", "URLError"} => err = exc

\* a server error with a JSON body that has no errorMsg: the raw body is kept
C5_Witness ==
    /\ pc = "raised" /\ exc.cls = "HTTPError" /\ exc.body = OtherJsonBody
    /\ err.msg = OtherJsonBody /\ err.code = 500

\* C6: every request carries, as Hawkular-Tenant, the argument of the last
\* tenant() call before it (the constructor's tenant if there was none); a
\* tenant() call sends no request and leaves every other attribute of the
\* client as it was.
C6_Step ==
    /\ Sent => TenantOf(Newest) = tenantArg
    /\ lastOp' = "tenant" =>
          /\ requests' = requests
          /\ self' = [self EXCEPT !.tenant_id = tenantArg']

\* C6: every step keeps the tenant header to the last tenant() argument, and
\* a tenant() step changes self.tenant_id alone
C6_TenantHeaderFollowsTenantCall == [][C6_Step]_vars

\* tenant("t2") was called, then put: the request carries t2
C6_Witness ==
    /\ op = "put" /\ ~switched /\ requests # <<>>
    /\ callTenant = "t2"
    /\ TenantOf(requests[1]) = "t2"

\* C7: the tenant of a request is self.tenant_id at the moment the request
\* is built, so a tenant() call during a put shows in the requests built
\* after it; without such a call all requests of the put carry the tenant
\* the client had when put was called.
C7_Inv ==
    (op \in {"put", "push"} /\ ~switched)
    => \A k \in DOMAIN requests : TenantOf(requests[k]) = callTenant

C7_Step == Sent => TenantOf(Newest) = self.tenant_id

\* C7: the tenant is read once per request: C7_Inv in every state and
\* C7_Step at every step
C7_TenantReadPerRequest == [](C7_Inv) /\ [][C7_Step]_vars

\* the two requests of one put carry different tenants
C7_Witness ==
    /\ op = "put" /\ Len(requests) = 2
    /\ TenantOf(requests[1]) = callTenant
    /\ TenantOf(requests[2]) # callTenant

\* C8: when put has ended, every record passed to it is as it was when put
\* was called: same type, id and data.
C8_RecordsUnchangedByPut ==
    PutEnded => \A i \in DOMAIN batch : heap[batch[i]] = held[i]

\* C9 as stated: a record whose type is present but not recognized makes put
\* raise before any request, and no POST goes to a URL whose type segment is
\* not a recognized one.  (Which error is raised is left to C2.)
C9_FailsClosed ==
    /\ (InPut /\ \E i \in DOMAIN held : held[i].type \notin Recognized \cup {None})
       => pc = "raised" /\ requests = <<>>
    /\ op \in {"put", "push"} =>
          \A k \in DOMAIN requests : requests[k].url[5] \in Recognized

\* C9, amended: put checks no membership.  Every POST of put goes to the raw
\* URL of the type of a record of the batch, recognized or not; a put that
\* returns has sent every record of the batch to the raw URL of its type;
\* and put raises before any request only for a record with no type when
\* the loop reaches it (none when put was called, or taken by an earlier
\* occurrence of the same record object in the batch).
C9_NoMembershipCheck ==
    InPut =>
       /\ \A k \in DOMAIN requests :
             \E i \in DOMAIN held :
                /\ held[i].type # None
                /\ requests[k].url = RawUrl(held[i].type)
       /\ pc = "returned" =>
             \A i \in DOMAIN held :
                \E k \in DOMAIN requests :
                   /\ requests[k].url = RawUrl(held[i].type)
                   /\ \E n \in DOMAIN requests[k].data.json :
                         requests[k].data.json[n] =
                            [id |-> held[i].id, data |-> held[i].data]
       /\ (pc = "raised" /\ exc = NoExc) =>
             \E i \in DOMAIN held :
                \/ held[i].type = None
                \/ \E j \in 1..(i - 1) : batch[j] = batch[i]

\* a POST went to .../metrics/raw
C9_Witness ==
    /\ InPut /\ requests # <<>>
    /\ requests[1].url[5] = _Metrics
    /\ \E i \in DOMAIN held : held[i].type = _Metrics

\* C10: every request has the Authorization its client's credentials give:
\* Bearer and the token when a token is set, whatever the username; else
\* Basic and the base64 of username:password when a username is set; else
\* none.
C10_Authorization ==
    \A k \in DOMAIN requests :
       LET h == requests[k].headers
       IN  IF self.token # None THEN
               /\ "Authorization" \in DOMAIN h
               /\ h["Authorization"].scheme = "Bearer"
               /\ h["Authorization"].token = self.token
           ELSE IF self.username # <<>> THEN
               /\ "Authorization" \in DOMAIN h
               /\ h["Authorization"].scheme = "Basic"
               /\ self.password # <<>>
               /\ b64decode(h["Authorization"].b64) =
                     self.username[1] \o <<58>> \o self.password[1]
               \* "u:pw" is dTpwdw==
               /\ h["Authorization"].b64 = <<29, 19, 41, 48, 29, 48, 64, 64>>
           ELSE "Authorization" \notin DOMAIN h

\* a client with a token and a username sent a request: it is Bearer
C10_Witness ==
    /\ requests # <<>>
    /\ self.token # None /\ self.username # <<>>
    /\ requests[1].headers["Authorization"].scheme = "Bearer"

====
